---------------------------- MODULE Spec2Model ----------------------------
(***************************************************************************)
(* gitfails: scripted construction of demonstration git repositories.      *)
(*                                                                         *)
(* The state is the directory tree under the scenario's dirpath (one git   *)
(* repository per sub-directory) together with the position of the running *)
(* construct() call.  Scenario.__init__ and the three construct() scripts  *)
(* come from src/gitfails/scenarios.py.  gitfails.actions (create_repo,    *)
(* create_file_and_commit, create_branch_and_checkout) is imported by that *)
(* file but is not among the sources; it is modelled from the adapter      *)
(* contract of the specification, as are the git operations the scripts    *)
(* call on the repository handles (clone, push, pull, fetch, checkout,     *)
(* rebase).                                                                *)
(*                                                                         *)
(* A commit is identified by its history: the sequence of changes from the *)
(* root commit to it.  All histories here are linear (no step creates a    *)
(* merge commit), so "c is reachable from d" is "c is a prefix of d".  Two *)
(* commits with different histories have different hashes; the model does  *)
(* not use timestamps to tell commits apart.                               *)
(***************************************************************************)
EXTENDS Integers, Sequences, FiniteSets, TLC

VARIABLES
    fs,        \* the directory dirpath: [exists, junk, repos]
    kind,      \* which Scenario subclass the current object is
    overwrite, \* the overwrite argument the current object was built with
    status,    \* "idle" | "ready" | "running" | "done" | "failed"
    pc,        \* index of the next step of the script of construct()
    err,       \* the exception construct() raised, "" when none
    handles,   \* repository handles bound so far by the running construct()
    built,     \* repositories created or cloned since the object was built
    prior,     \* what dirpath held when __init__ was entered
    fresh,     \* the running construct() started with no repository under dirpath
    injected,  \* a backend call of the running construct() was made to fail
    objects,   \* number of Scenario objects constructed so far
    calls,     \* number of construct() calls on the current object
    faults,    \* number of backend failures injected so far
    atEntry,   \* the repositories as they were when construct() was entered
    logger,    \* the logger named 'application': [level, handlers]
    records,   \* what became of each record logged: [level, after, emitted]
    setups     \* number of calls of setup_logger() so far

\* the state of the logging module
logvars == <<logger, records, setups>>

vars == <<fs, kind, overwrite, status, pc, err, handles, built, prior, fresh,
          injected, objects, calls, faults, atEntry, logger, records, setups>>

\* the state of the scenarios
scenariovars == <<fs, kind, overwrite, status, pc, err, handles, built, prior,
                  fresh, injected, objects, calls, faults, atEntry>>

----------------------------------------------------------------------------
(* Bounds of the model *)

\* Scenario objects constructed on the same dirpath, one after the other.
MaxObjects == 2
\* construct() calls on one Scenario object.
MaxCalls == 2
\* Backend calls that are made to fail, over the whole behaviour.
MaxFaults == 1
\* Calls of setup_logger() in one process.
MaxSetup == 3
\* Records logged in one process.
MaxLogs == 3

----------------------------------------------------------------------------
(* Names *)

Scenarios == {"TwoFeatureBranches", "ForcePushSharedBranch", "DivergedCommitHistories"}

RepoNames == {"repo", "origin", "bad_dev", "good_dev", "upstream", "fork"}

Branches == {"main", "A", "B", "dev"}

\* for ind in range(num_commits)
Digit == <<"0", "1", "2">>

\* filename = f'{filename_prefix}_{ind}.txt'
FileName(filename_prefix, ind) == filename_prefix \o "_" \o Digit[ind + 1] \o ".txt"

Prefixes == {"some_file", "some_new_file", "fork_diverge"}

Files == {"file1.txt", "file2.txt", "file3.txt"}
            \cup {FileName(p, i) : p \in Prefixes, i \in 0..(Len(Digit) - 1)}

\* content of a path that is not in the working tree
NoFile == "<no file>"

----------------------------------------------------------------------------
(* The git object model *)

\* One commit's own contribution: the file it changes and who committed it.
Change(author, filename, content, message) ==
    [author |-> author, file |-> filename, content |-> content, message |-> message]

IsPrefix(h1, h2) ==
    /\ Len(h1) <= Len(h2)
    /\ SubSeq(h2, 1, Len(h1)) = h1

\* The commits reachable from tip h: h itself and its ancestors.
Commits(h) == {SubSeq(h, 1, n) : n \in 1..Len(h)}

\* The tree of commit h: every file with the content the last change gave it.
RECURSIVE Tree(_)
Tree(h) ==
    IF h = <<>> THEN [f \in Files |-> NoFile]
    ELSE [Tree(SubSeq(h, 1, Len(h) - 1)) EXCEPT ![h[Len(h)].file] = h[Len(h)].content]

\* Longest common prefix of two histories: the merge base of two tips.
RECURSIVE MergeBase(_, _)
MergeBase(h1, h2) ==
    IF h1 = <<>> \/ h2 = <<>> \/ Head(h1) # Head(h2) THEN <<>>
    ELSE <<Head(h1)>> \o MergeBase(Tail(h1), Tail(h2))

\* A sub-directory of dirpath that is not a repository.
NoRepo ==
    [exists |-> FALSE, heads |-> {}, tip |-> [b \in Branches |-> <<>>],
     HEAD |-> "main", wt |-> [f \in Files |-> NoFile],
     rheads |-> {}, rtip |-> [b \in Branches |-> <<>>], origin |-> "none"]

\* The commit HEAD points at (<<>> while the checked-out branch is unborn).
HeadTip(r) == IF r.HEAD \in r.heads THEN r.tip[r.HEAD] ELSE <<>>

NoDirectory == [exists |-> FALSE, junk |-> FALSE, repos |-> [n \in RepoNames |-> NoRepo]]

----------------------------------------------------------------------------
(* The adapter and the git backend: each operation maps the repositories    *)
(* under dirpath to an outcome [ok, err, repos].                            *)

Ok(repos) == [ok |-> TRUE, err |-> "", repos |-> repos]

Failed(e, repos) == [ok |-> FALSE, err |-> e, repos |-> repos]

\* create_repository(path): a new, empty repository with an unborn main; an
\* existing repository is re-initialised, which leaves it as it is.
create_repo(repos, name) ==
    IF repos[name].exists THEN Ok(repos)
    ELSE Ok([repos EXCEPT ![name] = [NoRepo EXCEPT !.exists = TRUE]])

\* create_file_and_commit: write the file (created, or overwritten when the
\* flag says so), stage it and commit; nothing to commit is a CommitError.
create_file_and_commit(repos, name, author, filename, content, message, ow) ==
    LET r == repos[name]
        written == IF r.wt[filename] = NoFile \/ ow
                   THEN [r.wt EXCEPT ![filename] = content]
                   ELSE r.wt
        parent == HeadTip(r)
        commit == Append(parent, Change(author, filename, written[filename], message))
    IN  IF written[filename] = Tree(parent)[filename]
        THEN Failed("CommitError", [repos EXCEPT ![name].wt = written])
        ELSE Ok([repos EXCEPT ![name].wt = written,
                              ![name].heads = r.heads \cup {r.HEAD},
                              ![name].tip[r.HEAD] = commit])

\* create_branch_and_checkout: the branch is created at the current commit if
\* it does not exist, and is checked out.
create_branch_and_checkout(repos, name, branch_name) ==
    LET r == repos[name] IN
    IF branch_name \in r.heads
    THEN Ok([repos EXCEPT ![name].HEAD = branch_name,
                          ![name].wt = Tree(r.tip[branch_name])])
    ELSE IF HeadTip(r) = <<>>
    THEN Ok([repos EXCEPT ![name].HEAD = branch_name])
    ELSE Ok([repos EXCEPT ![name].heads = r.heads \cup {branch_name},
                          ![name].tip[branch_name] = HeadTip(r),
                          ![name].HEAD = branch_name])

\* repo.clone(path): a copy of the history with remote origin pointing back;
\* the branch checked out in the source becomes the only local branch.
clone(repos, src, dest) ==
    LET s == repos[src] IN
    IF repos[dest].exists \/ ~s.exists
    THEN Failed("RemoteTransferError", repos)
    ELSE Ok([repos EXCEPT ![dest] =
                [exists |-> TRUE,
                 heads  |-> s.heads \cap {s.HEAD},
                 tip    |-> [b \in Branches |-> IF b = s.HEAD THEN HeadTip(s) ELSE <<>>],
                 HEAD   |-> s.HEAD,
                 wt     |-> Tree(HeadTip(s)),
                 rheads |-> s.heads,
                 rtip   |-> [b \in Branches |-> IF b \in s.heads THEN s.tip[b] ELSE <<>>],
                 origin |-> src]])

\* repo.remotes.origin.push(branch, force): refused for a branch that is
\* checked out in the remote, and for a non-fast-forward update without force.
push(repos, name, branch, force) ==
    LET r == repos[name]
        o == repos[r.origin]
    IN  IF r.origin = "none" \/ branch \notin r.heads
        THEN Failed("RemoteTransferError", repos)
        ELSE IF o.HEAD = branch
        THEN Failed("RemoteTransferError", repos)
        ELSE IF branch \in o.heads /\ ~IsPrefix(o.tip[branch], r.tip[branch]) /\ ~force
        THEN Failed("RemoteTransferError", repos)
        ELSE Ok([repos EXCEPT ![r.origin].heads = o.heads \cup {branch},
                              ![r.origin].tip[branch] = r.tip[branch],
                              ![name].rheads = r.rheads \cup {branch},
                              ![name].rtip[branch] = r.tip[branch]])

\* repo.remotes.origin.fetch(): every branch of the remote is copied to its
\* remote-tracking branch, whether or not the update is a fast-forward.
fetch(repos, name) ==
    LET r == repos[name]
        o == repos[r.origin]
    IN  IF r.origin = "none" THEN Failed("RemoteTransferError", repos)
        ELSE Ok([repos EXCEPT
                 ![name].rheads = r.rheads \cup o.heads,
                 ![name].rtip = [b \in Branches |->
                                    IF b \in o.heads THEN o.tip[b] ELSE r.rtip[b]]])

\* repo.remotes.origin.pull(branch): fetch the branch and merge it into the
\* checked-out branch.  A merge that is neither a fast-forward nor a no-op
\* would create a merge commit, which no history here can hold: it is
\* reported as MergeRequired (PullIsLinear shows that it never happens).
pull(repos, name, branch) ==
    LET r == repos[name]
        o == repos[r.origin]
        fetched == o.tip[branch]
        tracked == [repos EXCEPT ![name].rheads = r.rheads \cup {branch},
                                 ![name].rtip[branch] = fetched]
    IN  IF r.origin = "none" \/ branch \notin o.heads
        THEN Failed("RemoteTransferError", repos)
        ELSE IF IsPrefix(HeadTip(r), fetched)
        THEN Ok([tracked EXCEPT ![name].heads = r.heads \cup {r.HEAD},
                                ![name].tip[r.HEAD] = fetched,
                                ![name].wt = Tree(fetched)])
        ELSE IF IsPrefix(fetched, HeadTip(r))
        THEN Ok(tracked)
        ELSE Failed("MergeRequired", tracked)

\* repo.git.checkout(branch): a local branch is switched to; a branch known
\* only as origin/<branch> is created from it first.
checkout(repos, name, branch) ==
    LET r == repos[name] IN
    IF branch \in r.heads
    THEN Ok([repos EXCEPT ![name].HEAD = branch,
                          ![name].wt = Tree(r.tip[branch])])
    ELSE IF branch \in r.rheads
    THEN Ok([repos EXCEPT ![name].heads = r.heads \cup {branch},
                          ![name].tip[branch] = r.rtip[branch],
                          ![name].HEAD = branch,
                          ![name].wt = Tree(r.rtip[branch])])
    ELSE Failed("BranchError", repos)

\* repo.git.rebase(upstream): the commits of the checked-out branch that
\* upstream lacks are replayed on upstream's tip.  Two sides that gave one
\* file different contents conflict; a replayed change that upstream already
\* holds is dropped.
rebase(repos, name, upstream) ==
    LET r == repos[name]
        cur == HeadTip(r)
        onto == r.tip[upstream]
        base == MergeBase(cur, onto)
        mine == SubSeq(cur, Len(base) + 1, Len(cur))
        theirs == SubSeq(onto, Len(base) + 1, Len(onto))
        Conflict == \E i \in 1..Len(mine), j \in 1..Len(theirs) :
                        /\ mine[i].file = theirs[j].file
                        /\ mine[i].content # theirs[j].content
        Kept(c) == Tree(onto)[c.file] # c.content
        rebased == onto \o SelectSeq(mine, Kept)
    IN  IF upstream \notin r.heads \/ r.HEAD \notin r.heads
        THEN Failed("BranchError", repos)
        ELSE IF Conflict
        THEN Failed("RebaseConflictError", repos)
        ELSE Ok([repos EXCEPT ![name].tip[r.HEAD] = rebased,
                              ![name].wt = Tree(rebased)])

----------------------------------------------------------------------------
(* The scripts of construct(): one step per call made on a repository.      *)

Step(op, repo, arg, author, file, content, message, flag) ==
    [op |-> op, repo |-> repo, arg |-> arg, author |-> author, file |-> file,
     content |-> content, message |-> message, flag |-> flag]

CreateRepo(repo) == Step("create_repo", repo, "", "", "", "", "", FALSE)

Commit(repo, author, filename, content, message, ow) ==
    Step("create_file_and_commit", repo, "", author, filename, content, message, ow)

Branch(repo, branch_name) ==
    Step("create_branch_and_checkout", repo, branch_name, "", "", "", "", FALSE)

CloneTo(repo, dest) == Step("clone", repo, dest, "", "", "", "", FALSE)

PushBranch(repo, branch, force) == Step("push", repo, branch, "", "", "", "", force)

PullBranch(repo, branch) == Step("pull", repo, branch, "", "", "", "", FALSE)

Fetch(repo) == Step("fetch", repo, "", "", "", "", "", FALSE)

Checkout(repo, branch) == Step("checkout", repo, branch, "", "", "", "", FALSE)

Rebase(repo, upstream) == Step("rebase", repo, upstream, "", "", "", "", FALSE)

\* A call of a method that the class does not define.
CallUndefined(repo, method) == Step("undefined", repo, method, "", "", "", "", FALSE)

\* num_commits=3 in each call of _add_commits
num_commits == 3

\* DivergedCommitHistories._add_commits: one create_file_and_commit per ind.
add_commits(repo, author, n, filename_prefix) ==
    [k \in 1..n |->
        Commit(repo, author, FileName(filename_prefix, k - 1),
               "Content for " \o FileName(filename_prefix, k - 1)
                   \o ", created by " \o author,
               "Commit " \o Digit[k] \o " by " \o author,
               FALSE)]

\* a slip: the directory name of another scenario
repo_dirpath_of_origin == "origin"

\* repo_dirpath = self.dirpath / 'repo'
repo_dirpath == "repo"

\* create a file on the main branch and commit
two_initial_commit ==
    << CreateRepo(repo_dirpath),
       Commit(repo_dirpath, "Developer 1", "file1.txt", "Initial content",
              "Initial commit", FALSE) >>

\* create branch A, add a file, and commit
two_branch_A ==
    << Branch(repo_dirpath, "A"),
       Commit(repo_dirpath, "Developer 1", "file2.txt", "Content from branch A",
              "Commit on branch A", FALSE) >>

\* a slip: branch B is created without switching back to main first
two_branch_B_on_top_of_A ==
    << Branch(repo_dirpath, "B"),
       Commit(repo_dirpath, "Developer 1", "file3.txt", "Content from branch B",
              "Commit on branch B", FALSE) >>

\* switch back to main, create branch B, add a file, and commit
two_branch_B ==
    << Branch(repo_dirpath, "main"),
       Branch(repo_dirpath, "B"),
       Commit(repo_dirpath, "Developer 1", "file3.txt", "Content from branch B",
              "Commit on branch B", FALSE) >>

\* a slip: the final switch to main is left out
two_stays_on_B == << >>

\* switch back to the main branch
two_back_to_main == << Branch(repo_dirpath, "main") >>

TwoFeatureBranches_construct ==
    two_initial_commit \o two_branch_A \o two_branch_B \o two_back_to_main

\* a slip: the first commit is flagged overwrite as well
force_setup_origin_overwriting ==
    << CreateRepo("origin"),
       Commit("origin", "maintainers", "file1.txt", "Initial content",
              "Initial commit", TRUE),
       Commit("origin", "maintainers", "file1.txt", "Modified content",
              "Second commit", TRUE) >>

\* set up the remote/origin repo
force_setup_origin ==
    << CreateRepo("origin"),
       Commit("origin", "maintainers", "file1.txt", "Initial content",
              "Initial commit", FALSE),
       Commit("origin", "maintainers", "file1.txt", "Modified content",
              "Second commit", TRUE) >>

\* a slip: only the bad dev's clone is made
force_clone_once == << CloneTo("origin", "bad_dev") >>

\* clone the origin repo to represent local repos of two developers
force_clone_twice ==
    << CloneTo("origin", "bad_dev"),
       CloneTo("origin", "good_dev") >>

\* a slip: the feature commit changes file1.txt
force_bad_dev_changes_file1 ==
    << Branch("bad_dev", "dev"),
       Commit("bad_dev", "bad-dev", "file1.txt", "some new feature",
              "add new feature", TRUE),
       PushBranch("bad_dev", "dev", FALSE) >>

\* the bad dev creates a `dev` branch, makes a commit, and pushes to the origin
force_bad_dev_pushes_dev ==
    << Branch("bad_dev", "dev"),
       Commit("bad_dev", "bad-dev", "file2.txt", "some new feature",
              "add new feature", FALSE),
       PushBranch("bad_dev", "dev", FALSE) >>

\* a slip: the commit on main of origin is left out
force_no_third_commit == << >>

\* create a new commit directly on `main` in the origin
force_third_commit ==
    << Commit("origin", "maintainers", "file1.txt", "Modified content again",
              "Third commit", TRUE) >>

\* a slip: the bad dev does not pull main
force_update_main_good_dev_only ==
    << Checkout("good_dev", "main"),
       PullBranch("good_dev", "main"),
       Checkout("bad_dev", "main") >>

\* update the main branch in both dev repos
force_update_main ==
    << Checkout("good_dev", "main"),
       PullBranch("good_dev", "main"),
       Checkout("bad_dev", "main"),
       PullBranch("bad_dev", "main") >>

\* a slip: the change of file2.txt is not flagged overwrite
force_good_dev_commits_unflagged ==
    << Fetch("good_dev"),
       Checkout("good_dev", "dev"),
       Commit("good_dev", "good-dev", "file2.txt", "some modified new feature",
              "modified new feature", FALSE) >>

\* the good dev fetches the dev branch and adds a new commit to modify the feature
force_good_dev_commits ==
    << Fetch("good_dev"),
       Checkout("good_dev", "dev"),
       Commit("good_dev", "good-dev", "file2.txt", "some modified new feature",
              "modified new feature", TRUE) >>

\* a slip: dev is force-pushed without having been rebased
force_push_without_rebase ==
    << Checkout("bad_dev", "dev"),
       PushBranch("bad_dev", "dev", TRUE) >>

\* a slip: dev is rebased on itself
force_rebase_onto_dev ==
    << Checkout("bad_dev", "dev"),
       Rebase("bad_dev", "dev"),
       PushBranch("bad_dev", "dev", TRUE) >>

\* the bad dev rebases their dev branch on the updated main branch and force-pushes it
force_bad_dev_rebases ==
    << Checkout("bad_dev", "dev"),
       Rebase("bad_dev", "main"),
       PushBranch("bad_dev", "dev", TRUE) >>

\* a slip: the good dev checks dev out without fetching first
force_checkout_without_fetch == << Checkout("good_dev", "dev") >>

\* the good dev fetches and checkouts out the dev branch
force_good_dev_fetches ==
    << Fetch("good_dev"),
       Checkout("good_dev", "dev") >>

ForcePushSharedBranch_construct ==
    force_setup_origin \o force_clone_twice \o force_bad_dev_pushes_dev
        \o force_third_commit \o force_update_main \o force_good_dev_commits
        \o force_bad_dev_rebases \o force_good_dev_fetches

\* a slip: the fork is cloned after upstream has received its later commits
Diverged_construct_clone_late ==
    << CreateRepo("upstream") >>
    \o add_commits("upstream", "original-dev", num_commits, "some_file")
    \o add_commits("upstream", "external-dev", num_commits, "some_new_file")
    \o << CloneTo("upstream", "fork") >>
    \o add_commits("fork", "fork-dev", num_commits, "fork_diverge")
    \o << CallUndefined("fork", "_add_similar_commits") >>

DivergedCommitHistories_construct ==
    << CreateRepo("upstream") >>
    \o add_commits("upstream", "original-dev", num_commits, "some_file")
    \o << CloneTo("upstream", "fork") >>
    \o add_commits("upstream", "external-dev", num_commits, "some_new_file")
    \o add_commits("fork", "fork-dev", num_commits, "fork_diverge")
    \o << CallUndefined("fork", "_add_similar_commits") >>

Script(k) ==
    CASE k = "TwoFeatureBranches" -> TwoFeatureBranches_construct
      [] k = "ForcePushSharedBranch" -> ForcePushSharedBranch_construct
      [] k = "DivergedCommitHistories" -> DivergedCommitHistories_construct

\* The repository directories a scenario is meant to leave under dirpath.
Expected(k) ==
    CASE k = "TwoFeatureBranches" -> {"repo"}
      [] k = "ForcePushSharedBranch" -> {"origin", "bad_dev", "good_dev"}
      [] k = "DivergedCommitHistories" -> {"upstream", "fork"}

\* a slip: the flag is never looked at and nothing is removed
Scenario_init_keeps(dir, ow) == dir

\* a slip: an existing dirpath is removed whatever the flag says
Scenario_init_always_removes(dir, ow) ==
    IF dir.exists THEN NoDirectory ELSE dir

\* Scenario.__init__: with overwrite, an existing dirpath is removed with all
\* that it holds.
Scenario_init(dir, ow) ==
    IF ow /\ dir.exists THEN NoDirectory ELSE dir

----------------------------------------------------------------------------
(* The state machine *)

Init ==
    /\ fs \in {NoDirectory,
               [NoDirectory EXCEPT !.exists = TRUE],
               [NoDirectory EXCEPT !.exists = TRUE, !.junk = TRUE]}
    /\ kind = "none"
    /\ overwrite = FALSE
    /\ status = "idle"
    /\ pc = 1
    /\ err = ""
    /\ handles = {}
    /\ built = {}
    /\ prior = fs
    /\ fresh = FALSE
    /\ injected = FALSE
    /\ objects = 0
    /\ calls = 0
    /\ faults = 0
    /\ atEntry = fs.repos
    /\ logger = [level |-> "NOTSET", handlers |-> <<>>]
    /\ records = <<>>
    /\ setups = 0

\* scenario = SomeScenario(dirpath, overwrite)
NewScenario(k, ow) ==
    /\ status \in {"idle", "ready", "done", "failed"}
    /\ objects < MaxObjects
    /\ prior' = fs
    /\ fs' = Scenario_init(fs, ow)
    /\ kind' = k
    /\ overwrite' = ow
    /\ status' = "ready"
    /\ pc' = 1
    /\ err' = ""
    /\ handles' = {}
    /\ built' = {}
    /\ fresh' = FALSE
    /\ injected' = FALSE
    /\ objects' = objects + 1
    /\ calls' = 0
    /\ UNCHANGED <<faults, atEntry, logvars>>

\* scenario.construct() is entered: nothing is bound yet, nothing is touched.
ConstructCall ==
    /\ status \in {"ready", "done", "failed"}
    /\ calls < MaxCalls
    /\ status' = "running"
    /\ pc' = 1
    /\ err' = ""
    /\ handles' = {}
    /\ fresh' = (~fs.junk /\ \A n \in RepoNames : ~fs.repos[n].exists)
    /\ injected' = FALSE
    /\ calls' = calls + 1
    /\ atEntry' = fs.repos
    /\ UNCHANGED <<fs, kind, overwrite, built, prior, objects, faults, logvars>>

\* The step construct() is about to execute.
Cur == Script(kind)[pc]

At(op) ==
    /\ status = "running"
    /\ pc \in 1..Len(Script(kind))
    /\ Cur.op = op

\* A step applied to a handle: the local variable must have been bound.
OnHandle(res) ==
    IF Cur.repo \in handles THEN res ELSE Failed("NameError", fs.repos)

\* a slip: the exception is caught and construct() goes on with the next step
Outcome_swallows(res, bound) ==
    /\ fs' = [fs EXCEPT !.exists = fs.exists \/ (\E n \in RepoNames : res.repos[n].exists),
                        !.repos = res.repos]
    /\ pc' = pc + 1
    /\ status' = IF pc = Len(Script(kind)) THEN "done" ELSE "running"
    /\ err' = ""
    /\ handles' = IF res.ok THEN handles \cup bound ELSE handles
    /\ built' = IF res.ok THEN built \cup bound ELSE built
    /\ UNCHANGED <<kind, overwrite, prior, fresh, injected, objects, calls, faults,
                   atEntry, logvars>>

\* The step's outcome: construct() goes on to the next statement (returning
\* after the last one), or the exception leaves construct().
Outcome(res, bound) ==
    /\ fs' = [fs EXCEPT !.exists = fs.exists \/ (\E n \in RepoNames : res.repos[n].exists),
                        !.repos = res.repos]
    /\ IF res.ok
       THEN /\ pc' = pc + 1
            /\ status' = IF pc = Len(Script(kind)) THEN "done" ELSE "running"
            /\ err' = ""
            /\ handles' = handles \cup bound
            /\ built' = built \cup bound
       ELSE /\ pc' = pc
            /\ status' = "failed"
            /\ err' = res.err
            /\ UNCHANGED <<handles, built>>
    /\ UNCHANGED <<kind, overwrite, prior, fresh, injected, objects, calls, faults,
                   atEntry, logvars>>

DoCreateRepo ==
    /\ At("create_repo")
    /\ Outcome(create_repo(fs.repos, Cur.repo), {Cur.repo})

DoCommit ==
    /\ At("create_file_and_commit")
    /\ Outcome(OnHandle(create_file_and_commit(fs.repos, Cur.repo, Cur.author, Cur.file,
                                               Cur.content, Cur.message, Cur.flag)), {})

DoBranch ==
    /\ At("create_branch_and_checkout")
    /\ Outcome(OnHandle(create_branch_and_checkout(fs.repos, Cur.repo, Cur.arg)), {})

DoClone ==
    /\ At("clone")
    /\ Outcome(OnHandle(clone(fs.repos, Cur.repo, Cur.arg)), {Cur.arg})

DoPush ==
    /\ At("push")
    /\ Outcome(OnHandle(push(fs.repos, Cur.repo, Cur.arg, Cur.flag)), {})

DoPull ==
    /\ At("pull")
    /\ Outcome(OnHandle(pull(fs.repos, Cur.repo, Cur.arg)), {})

DoFetch ==
    /\ At("fetch")
    /\ Outcome(OnHandle(fetch(fs.repos, Cur.repo)), {})

DoCheckout ==
    /\ At("checkout")
    /\ Outcome(OnHandle(checkout(fs.repos, Cur.repo, Cur.arg)), {})

DoRebase ==
    /\ At("rebase")
    /\ Outcome(OnHandle(rebase(fs.repos, Cur.repo, Cur.arg)), {})

\* self._add_similar_commits: the attribute lookup raises AttributeError
\* before anything is called.
DoUndefined ==
    /\ At("undefined")
    /\ status' = "failed"
    /\ err' = "AttributeError"
    /\ UNCHANGED <<fs, kind, overwrite, pc, handles, built, prior, fresh, injected,
                   objects, calls, faults, atEntry, logvars>>

\* A backend call fails for a reason of the environment (I/O, permissions):
\* the exception leaves construct() and the directory stays as the earlier
\* steps left it.
BackendFailure ==
    /\ status = "running"
    /\ pc \in 1..Len(Script(kind))
    /\ Cur.op # "undefined"
    /\ faults < MaxFaults
    /\ status' = "failed"
    /\ err' = "BackendError"
    /\ injected' = TRUE
    /\ faults' = faults + 1
    /\ UNCHANGED <<fs, kind, overwrite, pc, handles, built, prior, fresh, objects, calls,
                   atEntry, logvars>>

Next ==
    \/ \E k \in Scenarios, ow \in BOOLEAN : NewScenario(k, ow)
    \/ ConstructCall
    \/ DoCreateRepo
    \/ DoCommit
    \/ DoBranch
    \/ DoClone
    \/ DoPush
    \/ DoPull
    \/ DoFetch
    \/ DoCheckout
    \/ DoRebase
    \/ DoUndefined
    \/ BackendFailure

Spec == Init /\ [][Next]_vars

----------------------------------------------------------------------------
(* The logger (src/gitfails/utils.py) *)

\* The methods debug(), info(), warning(), error(), critical() of a logger.
LogLevels == {"DEBUG", "INFO", "WARNING", "ERROR", "CRITICAL"}

\* logging.DEBUG, logging.INFO, ... ; NOTSET is the level of a logger or of a
\* handler that was never given one.
Severity ==
    [l \in LogLevels \cup {"NOTSET"} |->
        CASE l = "NOTSET" -> 0
          [] l = "DEBUG" -> 10
          [] l = "INFO" -> 20
          [] l = "WARNING" -> 30
          [] l = "ERROR" -> 40
          [] l = "CRITICAL" -> 50]

\* A variant in which the handler is added to a logger without handlers only.
setup_logger_once ==
    /\ setups < MaxSetup
    /\ logger' = [level |-> "DEBUG",
                  handlers |-> IF logger.handlers = << >>
                               THEN <<"INFO">> ELSE logger.handlers]
    /\ setups' = setups + 1
    /\ UNCHANGED <<records, scenariovars>>

\* setup_logger(): getLogger('application') is the same logger on every call;
\* its level is set to DEBUG and a new StreamHandler of level INFO is added.
setup_logger ==
    /\ setups < MaxSetup
    /\ logger' = [level |-> "DEBUG",
                  handlers |-> Append(logger.handlers, "INFO")]
    /\ setups' = setups + 1
    /\ UNCHANGED <<records, scenariovars>>

\* The level in force for the logger: its own, or the root logger's WARNING.
EffectiveLevel == IF logger.level = "NOTSET" THEN "WARNING" ELSE logger.level

\* How many times a record of level l is written: once by every handler of
\* the logger whose level admits it; by the handler of last resort (WARNING)
\* when the logger has no handler; never when the logger is not enabled for l.
Emitted(l) ==
    IF Severity[l] < Severity[EffectiveLevel] THEN 0
    ELSE IF logger.handlers = << >>
         THEN (IF Severity[l] >= Severity["WARNING"] THEN 1 ELSE 0)
         ELSE Cardinality({i \in DOMAIN logger.handlers :
                              Severity[l] >= Severity[logger.handlers[i]]})

\* logger.debug(...), logger.info(...), ... on the logger setup_logger returns.
Log(l) ==
    /\ Len(records) < MaxLogs
    /\ records' = Append(records,
                         [level |-> l, after |-> setups, emitted |-> Emitted(l)])
    /\ UNCHANGED <<logger, setups, scenariovars>>

LoggerNext ==
    \/ setup_logger
    \/ \E l \in LogLevels : Log(l)

LoggerSpec == Init /\ [][LoggerNext]_vars

----------------------------------------------------------------------------
(* Checks of the model itself *)

\* No pull needs a merge commit and no rebase stops on a conflict, so the
\* linear histories lose nothing.
PullIsLinear == err \notin {"MergeRequired", "RebaseConflictError"}

\* Every working tree is the tree of the checked-out commit.
CleanTrees ==
    \A n \in RepoNames : fs.repos[n].exists => fs.repos[n].wt = Tree(HeadTip(fs.repos[n]))

----------------------------------------------------------------------------
(* Vocabulary of the claims *)

\* construct() of scenario k, started on a fresh directory, has returned.
Constructed(k) == kind = k /\ status = "done" /\ fresh

\* construct() of scenario k, started on a fresh directory with a backend
\* whose calls do not fail, has returned or raised.
Ended(k) == kind = k /\ status \in {"done", "failed"} /\ fresh /\ ~injected

Parent(h) == SubSeq(h, 1, Len(h) - 1)

Last(h) == h[Len(h)]

\* Commit h adds a file that its parent does not have.
Introduces(h, f) ==
    /\ h # <<>>
    /\ Last(h).file = f
    /\ Tree(Parent(h))[f] = NoFile
    /\ Tree(h)[f] # NoFile

Repo(n) == fs.repos[n]

----------------------------------------------------------------------------
(* C1 *)

\* C1: after TwoFeatureBranches.construct() on a fresh directory, branch A
\* has exactly one commit that is not reachable from main and it introduces
\* file2.txt, branch B has exactly one commit that is not reachable from main
\* and it introduces file3.txt, and neither of the two commits is in the
\* other branch's history.
C1_SiblingBranches ==
    Constructed("TwoFeatureBranches") =>
        LET r == Repo("repo")
            main == r.tip["main"]
            A == r.tip["A"]
            B == r.tip["B"]
        IN  /\ {"main", "A", "B"} \subseteq r.heads
            /\ Commits(A) \ Commits(main) = {A}
            /\ Introduces(A, "file2.txt")
            /\ Commits(B) \ Commits(main) = {B}
            /\ Introduces(B, "file3.txt")
            /\ A \notin Commits(B)
            /\ B \notin Commits(A)

C1_Witness ==
    /\ Constructed("TwoFeatureBranches")
    /\ Len(Repo("repo").tip["A"]) = 2
    /\ Len(Repo("repo").tip["B"]) = 2
    /\ Repo("repo").tip["A"] # Repo("repo").tip["B"]

----------------------------------------------------------------------------
(* C2 *)

\* C2 as claimed: after ForcePushSharedBranch.construct(), bad_dev's local
\* dev tip differs in commit hash from good_dev's fetched origin/dev tip,
\* while both have the same content.
C2_Original ==
    Constructed("ForcePushSharedBranch") =>
        /\ Repo("bad_dev").tip["dev"] # Repo("good_dev").rtip["dev"]
        /\ Tree(Repo("bad_dev").tip["dev"]) = Tree(Repo("good_dev").rtip["dev"])

\* C2 as amended: after ForcePushSharedBranch.construct(), bad_dev's local
\* dev tip is the very commit good_dev has fetched as origin/dev (the fetch
\* follows the force-push, so both are the rebased commit).  The commit that
\* differs from it in hash while carrying the same change to file2.txt is the
\* dev tip from before the rebase, which is the parent of good_dev's local
\* dev tip and is not reachable from the rebased one.
C2_RebasedTipIsFetched ==
    Constructed("ForcePushSharedBranch") =>
        LET rebased == Repo("bad_dev").tip["dev"]
            fetched == Repo("good_dev").rtip["dev"]
            before == Parent(Repo("good_dev").tip["dev"])
        IN  /\ "dev" \in Repo("bad_dev").heads
            /\ "dev" \in Repo("good_dev").rheads
            /\ rebased = fetched
            /\ fetched = Repo("origin").tip["dev"]
            /\ before # rebased
            /\ before \notin Commits(rebased)
            /\ Last(before) = Last(rebased)
            /\ Last(rebased).file = "file2.txt"
            /\ Tree(before)["file2.txt"] = Tree(rebased)["file2.txt"]

C2_Witness ==
    /\ Constructed("ForcePushSharedBranch")
    /\ Len(Repo("bad_dev").tip["dev"]) = 4
    /\ Len(Repo("good_dev").rtip["dev"]) = 4
    /\ Len(Repo("good_dev").tip["dev"]) = 4

----------------------------------------------------------------------------
(* C3 *)

\* C3: after ForcePushSharedBranch.construct(), good_dev has dev checked out,
\* its local dev has a commit that is not reachable from the origin/dev it
\* has just fetched (the rebased dev of origin), origin/dev has a commit that
\* is not reachable from the local dev, and neither tip is an ancestor of the
\* other.
C3_GoodDevDiverged ==
    Constructed("ForcePushSharedBranch") =>
        LET g == Repo("good_dev")
            local == g.tip["dev"]
            remote == g.rtip["dev"]
        IN  /\ g.HEAD = "dev"
            /\ "dev" \in g.heads
            /\ g.wt = Tree(local)
            /\ remote = Repo("origin").tip["dev"]
            /\ remote = Repo("bad_dev").tip["dev"]
            /\ Commits(local) \ Commits(remote) # {}
            /\ Commits(remote) \ Commits(local) # {}
            /\ ~IsPrefix(local, remote)
            /\ ~IsPrefix(remote, local)

C3_Witness ==
    /\ Constructed("ForcePushSharedBranch")
    /\ Repo("good_dev").HEAD = "dev"
    /\ Last(Repo("good_dev").tip["dev"]).author = "good-dev"
    /\ Last(Repo("good_dev").rtip["dev"]).author = "bad-dev"
    /\ Len(MergeBase(Repo("good_dev").tip["dev"], Repo("good_dev").rtip["dev"])) = 2

----------------------------------------------------------------------------
(* C4 *)

\* C4: after ForcePushSharedBranch.construct(), main of origin has exactly 3
\* commits, each of them a change of file1.txt, and no push of bad_dev (the
\* plain one or the forced one) changes main of origin.
C4_OriginMain ==
    /\ [](Constructed("ForcePushSharedBranch") =>
            /\ "main" \in Repo("origin").heads
            /\ Len(Repo("origin").tip["main"]) = 3
            /\ \A i \in 1..3 : Repo("origin").tip["main"][i].file = "file1.txt")
    /\ [][(kind = "ForcePushSharedBranch" /\ At("push")) =>
            /\ fs'.repos["origin"].tip["main"] = fs.repos["origin"].tip["main"]
            /\ ("main" \in fs'.repos["origin"].heads) = ("main" \in fs.repos["origin"].heads)
         ]_vars

C4_Witness ==
    /\ Constructed("ForcePushSharedBranch")
    /\ Len(Repo("origin").tip["main"]) = 3
    /\ Repo("origin").tip["dev"] # <<>>
    /\ Repo("origin").HEAD = "main"

----------------------------------------------------------------------------
(* C5 *)

\* The files upstream receives: some_file_0..2.txt and some_new_file_0..2.txt.
UpstreamFiles ==
    {FileName(p, i) : p \in {"some_file", "some_new_file"}, i \in 0..(num_commits - 1)}

\* C5: once DivergedCommitHistories.construct() has run on a fresh directory,
\* every file some_file_0..2.txt and some_new_file_0..2.txt is in the working
\* tree of fork with the content it has in the working tree of upstream.
C5_ForkHasUpstreamFiles ==
    Ended("DivergedCommitHistories") =>
        \A f \in UpstreamFiles :
            /\ Repo("fork").wt[f] # NoFile
            /\ Repo("fork").wt[f] = Repo("upstream").wt[f]

----------------------------------------------------------------------------
(* C6 *)

\* C6: in DivergedCommitHistories.construct() on a fresh directory, fork is
\* cloned when upstream has exactly its first 3 commits; when construct()
\* has run, upstream has 3 commits more and fork has 3 commits more, the
\* commits the two histories share are exactly the first 3, and no commit
\* made after the clone in one repository is in the history of the other.
C6_OnlyTheFirstThreeShared ==
    /\ [](Ended("DivergedCommitHistories") =>
            LET u == Repo("upstream").tip["main"]
                f == Repo("fork").tip["main"]
            IN  /\ Len(u) = num_commits + 3
                /\ Len(f) = num_commits + 3
                /\ Commits(u) \cap Commits(f) = Commits(SubSeq(u, 1, num_commits))
                /\ Repo("fork").rtip["main"] = SubSeq(u, 1, num_commits)
                /\ \A n \in (num_commits + 1)..Len(u) : SubSeq(u, 1, n) \notin Commits(f)
                /\ \A n \in (num_commits + 1)..Len(f) : SubSeq(f, 1, n) \notin Commits(u))
    /\ [][(kind = "DivergedCommitHistories" /\ fresh /\ At("clone") /\ status' # "failed") =>
            /\ Len(fs.repos["upstream"].tip["main"]) = num_commits
            /\ fs'.repos["fork"].tip["main"] = fs.repos["upstream"].tip["main"]
         ]_vars

C6_Witness ==
    /\ Ended("DivergedCommitHistories")
    /\ Len(Repo("upstream").tip["main"]) = 6
    /\ Len(Repo("fork").tip["main"]) = 6
    /\ Last(Repo("upstream").tip["main"]).author = "external-dev"
    /\ Last(Repo("fork").tip["main"]).author = "fork-dev"

----------------------------------------------------------------------------
(* C7 *)

\* C7: for each of the three scenarios, construct() started on a fresh
\* directory with a backend whose calls do not fail does not raise: it never
\* ends with an exception unless a backend call failed.
C7_ConstructDoesNotRaise ==
    (fresh /\ status = "failed") => injected

\* What holds of the two scenarios whose scripts are complete: on a fresh
\* directory they raise only when a backend call fails, and they return
\* having executed every step.
TwoAndForceDoNotRaise ==
    (fresh /\ kind \in {"TwoFeatureBranches", "ForcePushSharedBranch"}) =>
        /\ (status = "failed" => injected)
        /\ (status = "done" => pc = Len(Script(kind)) + 1)

----------------------------------------------------------------------------
(* C8 *)

\* C8: for all three scenario types, when construct() has returned, dirpath
\* exists and every expected repository directory under it is a repository
\* (repo; origin, bad_dev and good_dev; upstream and fork); more generally,
\* whatever a create-repository or clone step that construct() has passed
\* names is a repository.
C8_RepositoriesExist ==
    /\ (status = "done" =>
            /\ fs.exists
            /\ \A n \in Expected(kind) : Repo(n).exists)
    /\ (status \in {"running", "done", "failed"} =>
            \A i \in 1..(pc - 1) :
                /\ (Script(kind)[i].op = "create_repo" => Repo(Script(kind)[i].repo).exists)
                /\ (Script(kind)[i].op = "clone" => Repo(Script(kind)[i].arg).exists))

C8_Witness ==
    /\ status = "done"
    /\ kind = "ForcePushSharedBranch"
    /\ Repo("origin").exists /\ Repo("bad_dev").exists /\ Repo("good_dev").exists
    /\ Repo("bad_dev").origin = "origin" /\ Repo("good_dev").origin = "origin"

----------------------------------------------------------------------------
(* C9 *)

\* C9: constructing a Scenario with overwrite=True on an existing directory
\* removes the directory with all it holds, there and then, before any
\* repository is created; nothing is removed by a construct() call or by any
\* of its steps; so whatever exists under dirpath afterwards was built by
\* this Scenario object.
C9_OverwriteRemovesAtConstruction ==
    /\ [][(objects' # objects /\ overwrite' /\ fs.exists) => fs' = NoDirectory]_vars
    /\ [][(objects' = objects) =>
            /\ (fs.exists => fs'.exists)
            /\ fs'.junk = fs.junk
            /\ \A n \in RepoNames : fs.repos[n].exists => fs'.repos[n].exists
            /\ (calls' # calls => fs' = fs)
         ]_vars
    /\ []((status # "idle" /\ overwrite /\ prior.exists) =>
            /\ ~fs.junk
            /\ \A n \in RepoNames : Repo(n).exists => n \in built)

C9_Witness ==
    /\ overwrite
    /\ prior.junk
    /\ prior.repos["repo"].exists
    /\ kind = "ForcePushSharedBranch"
    /\ status = "done"
    /\ ~Repo("repo").exists
    /\ ~fs.junk

----------------------------------------------------------------------------
(* C10 *)

\* The step at hand writes a file that the checked-out commit already holds
\* with that very content.
NothingToCommit ==
    /\ At("create_file_and_commit")
    /\ Cur.repo \in handles
    /\ Repo(Cur.repo).wt[Cur.file] = Cur.content
    /\ Tree(HeadTip(Repo(Cur.repo)))[Cur.file] = Cur.content

\* C10: constructing a Scenario with overwrite=False leaves dirpath and all
\* it holds as it was; construct() then builds on top of it: every prior
\* repository and stray file stays, every prior branch keeps its commits;
\* and a create_file_and_commit that would carry no changes makes
\* construct() fail, leaving the histories as they were.
C10_NoOverwriteKeeps ==
    /\ [][(objects' # objects /\ ~overwrite') => fs' = fs]_vars
    /\ []((status # "idle" /\ ~overwrite) =>
            /\ (prior.exists => fs.exists)
            /\ (prior.junk => fs.junk)
            /\ \A n \in RepoNames : prior.repos[n].exists =>
                    /\ Repo(n).exists
                    /\ prior.repos[n].heads \subseteq Repo(n).heads
                    /\ \A b \in prior.repos[n].heads :
                            IsPrefix(prior.repos[n].tip[b], Repo(n).tip[b]))
    /\ [][(objects' = objects /\ NothingToCommit) =>
            /\ status' = "failed"
            /\ err' \in {"CommitError", "BackendError"}
            /\ \A n \in RepoNames : fs'.repos[n].tip = fs.repos[n].tip
         ]_vars

C10_Witness ==
    /\ ~overwrite
    /\ prior.junk
    /\ prior.repos["repo"].exists
    /\ Len(prior.repos["repo"].tip["B"]) = 2
    /\ kind = "TwoFeatureBranches"
    /\ status = "failed"
    /\ err = "CommitError"
    /\ fs = prior

----------------------------------------------------------------------------
(* C11 *)

\* The first create_file_and_commit of the script of the current scenario.
FirstCommit ==
    LET script == Script(kind)
        i == CHOOSE i \in 1..Len(script) :
                /\ script[i].op = "create_file_and_commit"
                /\ \A j \in 1..(i - 1) : script[j].op # "create_file_and_commit"
    IN  [step |-> script[i], index |-> i]

\* construct() was entered, without overwrite, on a directory in which an
\* earlier construct() of the scenario had got as far as its first commit.
CalledAgain ==
    /\ status \in {"running", "done", "failed"}
    /\ ~overwrite
    /\ Tree(HeadTip(atEntry[FirstCommit.step.repo]))[FirstCommit.step.file] # NoFile

\* Some branch has been created or moved since construct() was entered.
Appended ==
    \E n \in RepoNames :
        \/ Repo(n).heads # atEntry[n].heads
        \/ \E b \in Branches : Repo(n).tip[b] # atEntry[n].tip[b]

----------------------------------------------------------------------------
(* C12 *)

\* Step i of the script binds handle h: it creates the repository, or it
\* clones it from a handle.
Produces(i, h) ==
    \/ Script(kind)[i].op = "create_repo" /\ Script(kind)[i].repo = h
    \/ Script(kind)[i].op = "clone" /\ Script(kind)[i].arg = h

\* C12: in every scenario, at every step of construct(), the repository
\* handle a commit, branch, checkout, clone, push, pull, fetch or rebase is
\* applied to was bound earlier in the same construct() call by
\* create-repository or by cloning a handle that was itself bound; no step
\* ever finds its handle unbound.
C12_HandlesAreProduced ==
    /\ (At(Cur.op) /\ Cur.op # "create_repo") =>
            /\ Cur.repo \in handles
            /\ Repo(Cur.repo).exists
    /\ status \in {"running", "done", "failed"} =>
            \A h \in handles :
                \E i \in 1..(pc - 1) :
                    /\ Produces(i, h)
                    /\ (Script(kind)[i].op = "clone" =>
                            \E j \in 1..(i - 1) : Produces(j, Script(kind)[i].repo))
    /\ err # "NameError"

C12_Witness ==
    /\ At("rebase")
    /\ kind = "ForcePushSharedBranch"
    /\ Cur.repo = "bad_dev"
    /\ handles = {"origin", "bad_dev", "good_dev"}

----------------------------------------------------------------------------
(* C13 *)

\* What the call of the step at hand does to the repositories.
Attempt ==
    CASE Cur.op = "create_repo" -> create_repo(fs.repos, Cur.repo)
      [] Cur.op = "create_file_and_commit" ->
            OnHandle(create_file_and_commit(fs.repos, Cur.repo, Cur.author, Cur.file,
                                            Cur.content, Cur.message, Cur.flag))
      [] Cur.op = "create_branch_and_checkout" ->
            OnHandle(create_branch_and_checkout(fs.repos, Cur.repo, Cur.arg))
      [] Cur.op = "clone" -> OnHandle(clone(fs.repos, Cur.repo, Cur.arg))
      [] Cur.op = "push" -> OnHandle(push(fs.repos, Cur.repo, Cur.arg, Cur.flag))
      [] Cur.op = "pull" -> OnHandle(pull(fs.repos, Cur.repo, Cur.arg))
      [] Cur.op = "fetch" -> OnHandle(fetch(fs.repos, Cur.repo))
      [] Cur.op = "checkout" -> OnHandle(checkout(fs.repos, Cur.repo, Cur.arg))
      [] Cur.op = "rebase" -> OnHandle(rebase(fs.repos, Cur.repo, Cur.arg))
      [] Cur.op = "undefined" -> Failed("AttributeError", fs.repos)

\* C13: when a call made by construct() fails, construct() ends there with
\* that error: the step counter stays at the failing step, the error kept is
\* the one the call raised, the directory is as the steps before it left it
\* (nothing is rolled back or cleaned up), and nothing more happens (no later
\* step, no retry) until the caller calls construct() again or builds another
\* Scenario.
C13_FailureAborts ==
    /\ [][(status = "running" /\ ~Attempt.ok) => status' = "failed"]_vars
    /\ [][(status = "running" /\ status' = "failed") =>
            /\ pc' = pc
            /\ fs' = fs
            /\ handles' = handles
            /\ err' # ""
            /\ err' = IF injected' THEN "BackendError" ELSE Attempt.err
         ]_vars
    /\ [][status = "failed" => (calls' # calls \/ objects' # objects)]_vars

C13_Witness ==
    /\ status = "failed"
    /\ injected
    /\ fresh
    /\ kind = "ForcePushSharedBranch"
    /\ Cur.op = "checkout"
    /\ pc = 10
    /\ Len(Repo("origin").tip["main"]) = 3
    /\ Len(Repo("good_dev").tip["main"]) = 2
    /\ "dev" \in Repo("origin").heads

----------------------------------------------------------------------------
(* C14 *)

\* C14: after TwoFeatureBranches.construct() on a fresh directory, main is
\* the checked-out branch and holds the initial commit only, the working tree
\* is that commit's (file1.txt alone), and no commit made while A or B was
\* checked out moved main.
C14_EndsOnMain ==
    /\ [](Constructed("TwoFeatureBranches") =>
            LET r == Repo("repo") IN
            /\ r.HEAD = "main"
            /\ "main" \in r.heads
            /\ Len(r.tip["main"]) = 1
            /\ r.tip["main"][1].message = "Initial commit"
            /\ r.wt = Tree(r.tip["main"])
            /\ r.wt["file1.txt"] = "Initial content"
            /\ r.wt["file2.txt"] = NoFile
            /\ r.wt["file3.txt"] = NoFile)
    /\ [][(kind = "TwoFeatureBranches" /\ fresh /\ At("create_file_and_commit")
              /\ fs.repos["repo"].HEAD # "main") =>
            fs'.repos["repo"].tip["main"] = fs.repos["repo"].tip["main"]
         ]_vars

C14_Witness ==
    /\ Constructed("TwoFeatureBranches")
    /\ Repo("repo").HEAD = "main"
    /\ Len(Repo("repo").tip["A"]) = 2
    /\ Len(Repo("repo").tip["B"]) = 2
    /\ Len(Repo("repo").tip["main"]) = 1

----------------------------------------------------------------------------
(* C15 *)

\* construct() of scenario k was entered on a fresh directory.
Run(k) == kind = k /\ fresh /\ status \in {"running", "done", "failed"}

\* The running construct() has executed this step.
Passed(step) == \E i \in 1..(pc - 1) : Script(kind)[i] = step

\* C15: in ForcePushSharedBranch.construct() on a fresh directory, the third
\* commit on main of origin is made when both clones exist and dev has been
\* pushed; main of each clone has exactly 2 commits from the clone until its
\* pull and is main of origin, with 3 commits, from the pull on; so the
\* rebase of bad_dev is onto the 3-commit main.
C15_ThirdCommitBeforePulls ==
    Run("ForcePushSharedBranch") =>
        /\ (At("create_file_and_commit") /\ Cur.message = "Third commit") =>
                /\ Repo("bad_dev").exists /\ Repo("good_dev").exists
                /\ "dev" \in Repo("origin").heads
                /\ Len(Repo("origin").tip["main"]) = 2
        /\ \A c \in {"bad_dev", "good_dev"} :
                Repo(c).exists =>
                    IF Passed(PullBranch(c, "main"))
                    THEN /\ Repo(c).tip["main"] = Repo("origin").tip["main"]
                         /\ Len(Repo(c).tip["main"]) = 3
                    ELSE Len(Repo(c).tip["main"]) = 2
        /\ At("pull") => Len(Repo("origin").tip["main"]) = 3
        /\ At("rebase") =>
                /\ Cur.arg = "main"
                /\ Repo("bad_dev").tip["main"] = Repo("origin").tip["main"]
                /\ Len(Repo("bad_dev").tip["main"]) = 3
        /\ Passed(Rebase("bad_dev", "main")) =>
                /\ IsPrefix(Repo("origin").tip["main"], Repo("bad_dev").tip["dev"])
                /\ Len(Repo("bad_dev").tip["dev"]) = 4

C15_Witness ==
    /\ Run("ForcePushSharedBranch")
    /\ Passed(Rebase("bad_dev", "main"))
    /\ Passed(PullBranch("good_dev", "main"))
    /\ Len(Repo("bad_dev").tip["dev"]) = 4
    /\ Repo("bad_dev").tip["dev"][3].message = "Third commit"

----------------------------------------------------------------------------
(* C16 *)

\* C16: in ForcePushSharedBranch.construct() on a fresh directory, the first
\* push of dev creates a branch that origin does not have; at the second push
\* the dev tip of origin is not an ancestor of the rebased dev tip of
\* bad_dev, so the update is not a fast-forward: it would be refused without
\* force and is accepted with it; and no push names the branch checked out in
\* origin, which stays on main.
C16_SecondPushNeedsForce ==
    Run("ForcePushSharedBranch") =>
        /\ Repo("origin").exists => Repo("origin").HEAD = "main"
        /\ At("push") =>
                /\ Cur.repo = "bad_dev"
                /\ Cur.arg = "dev"
                /\ Cur.arg # Repo("origin").HEAD
                /\ Attempt.ok
        /\ (At("push") /\ ~Cur.flag) => "dev" \notin Repo("origin").heads
        /\ (At("push") /\ Cur.flag) =>
                /\ "dev" \in Repo("origin").heads
                /\ ~IsPrefix(Repo("origin").tip["dev"], Repo("bad_dev").tip["dev"])
                /\ ~push(fs.repos, "bad_dev", "dev", FALSE).ok
                /\ push(fs.repos, "bad_dev", "dev", TRUE).ok
        /\ Passed(PushBranch("bad_dev", "dev", TRUE)) =>
                Repo("origin").tip["dev"] = Repo("bad_dev").tip["dev"]

C16_Witness ==
    /\ Run("ForcePushSharedBranch")
    /\ At("push")
    /\ Cur.flag
    /\ Len(Repo("origin").tip["dev"]) = 3
    /\ Len(Repo("bad_dev").tip["dev"]) = 4

----------------------------------------------------------------------------
(* C17 *)

\* C17: on a fresh directory, in all three scenarios, a create_file_and_commit
\* without overwrite writes a file that the working tree of that repository
\* does not have, one that writes a file the working tree has is flagged
\* overwrite and gives it another content, and so none is an empty commit.
C17_NoEmptyCommit ==
    /\ (fresh /\ At("create_file_and_commit")) =>
            LET r == Repo(Cur.repo) IN
            /\ (~Cur.flag => r.wt[Cur.file] = NoFile)
            /\ (r.wt[Cur.file] # NoFile => (Cur.flag /\ Cur.content # r.wt[Cur.file]))
            /\ Cur.content # Tree(HeadTip(r))[Cur.file]
            /\ Attempt.ok
    /\ (fresh /\ status = "failed") => err # "CommitError"

C17_Witness ==
    /\ fresh
    /\ At("create_file_and_commit")
    /\ kind = "ForcePushSharedBranch"
    /\ Cur.repo = "good_dev"
    /\ Cur.flag
    /\ Repo("good_dev").wt["file2.txt"] = "some new feature"

----------------------------------------------------------------------------
(* C18 *)

\* C18: in ForcePushSharedBranch.construct() on a fresh directory, the rebase
\* of bad_dev replays one commit, which changes file2.txt, onto commits of
\* main that dev lacks, each of which changes file1.txt, so it does not stop
\* on a conflict; and the commit of good_dev is made on a local dev that is
\* at the dev tip bad_dev pushed before the rebase.
C18_RebaseHasNoConflict ==
    Run("ForcePushSharedBranch") =>
        /\ At("rebase") =>
                LET cur == HeadTip(Repo("bad_dev"))
                    onto == Repo("bad_dev").tip[Cur.arg]
                    base == MergeBase(cur, onto)
                    mine == SubSeq(cur, Len(base) + 1, Len(cur))
                    theirs == SubSeq(onto, Len(base) + 1, Len(onto))
                IN  /\ Repo("bad_dev").HEAD = "dev"
                    /\ Len(mine) = 1
                    /\ mine[1].file = "file2.txt"
                    /\ theirs # <<>>
                    /\ \A j \in 1..Len(theirs) : theirs[j].file = "file1.txt"
                    /\ Attempt.ok
        /\ err # "RebaseConflictError"
        /\ (At("create_file_and_commit") /\ Cur.repo = "good_dev") =>
                /\ Repo("good_dev").HEAD = "dev"
                /\ Repo("good_dev").tip["dev"] = Repo("good_dev").rtip["dev"]
                /\ Repo("good_dev").tip["dev"] = Repo("origin").tip["dev"]
                /\ Repo("good_dev").tip["dev"] = Repo("bad_dev").tip["dev"]
                /\ Last(Repo("good_dev").tip["dev"]).author = "bad-dev"
                /\ ~Passed(Rebase("bad_dev", "main"))

C18_Witness ==
    /\ Run("ForcePushSharedBranch")
    /\ At("rebase")
    /\ Len(Repo("bad_dev").tip["dev"]) = 3
    /\ Len(Repo("bad_dev").tip["main"]) = 3
    /\ Last(Repo("good_dev").tip["dev"]).author = "good-dev"

----------------------------------------------------------------------------
(* C19 *)

\* The logger has one handler of level INFO for each call of setup_logger(),
\* and a record of level INFO or higher is written once by each of them.
HandlerPerCall ==
    /\ Len(logger.handlers) = setups
    /\ \A i \in DOMAIN logger.handlers : logger.handlers[i] = "INFO"
    /\ setups >= 1 => logger.level = "DEBUG"
    /\ \A i \in DOMAIN records :
            records[i].after >= 1 =>
                records[i].emitted =
                    IF Severity[records[i].level] >= Severity["INFO"]
                    THEN records[i].after ELSE 0

\* C19: after any number of calls of setup_logger() the logger 'application'
\* has level DEBUG and exactly one handler, of level INFO, so that a record of
\* level INFO or higher is written exactly once and a DEBUG record is not
\* written.
C19_OneHandler ==
    setups >= 1 =>
        /\ logger.level = "DEBUG"
        /\ Len(logger.handlers) = 1
        /\ \A i \in DOMAIN logger.handlers : logger.handlers[i] = "INFO"
        /\ \A i \in DOMAIN records :
                records[i].after >= 1 =>
                    records[i].emitted =
                        IF Severity[records[i].level] >= Severity["INFO"]
                        THEN 1 ELSE 0

\* setup_logger() was called twice and an INFO record was then written twice.
C19_Twice ==
    /\ setups = 2
    /\ \E i \in DOMAIN records :
            /\ records[i].level = "INFO"
            /\ records[i].after = 2
            /\ records[i].emitted = 2

============================================================================
